---- MODULE Spec2Model ----
(***************************************************************************)
(* A state-machine model of tiny-evm: the 256-bit word arithmetic, the     *)
(* evaluation stack, the memory, the storage, the gas meter, the opcode    *)
(* handlers, the execution frame (EVM::execute and its control operations) *)
(* and the world state (State and its snapshots).                          *)
(*                                                                         *)
(* Words are exact 256-bit values.  A word is kept as its little-endian    *)
(* sequence of base-256 digits without leading (most significant) zeros,   *)
(* so 0 is <<>> and two words are equal exactly when their sequences are.  *)
(***************************************************************************)
EXTENDS Integers, Sequences, FiniteSets, TLC

VARIABLES
    stack,        \* EVM.stack  : Stack.data, bottom first, top last
    memory,       \* EVM.memory : Memory.data, a sequence of bytes
    storage,      \* EVM.storage: Storage.data, a set of <<key, value>> entries
    pc,           \* EVM.pc
    gas,          \* EVM.gas
    initial_gas,  \* EVM.initial_gas
    code,         \* EVM.context.code
    return_data,  \* EVM.return_data
    stopped,      \* EVM.stopped
    reverted,     \* EVM.reverted
    phase,        \* "idle": no call in progress; "running": inside EVM::execute's loop
    entry,        \* the frame as it was when EVM::execute was last entered
    result,       \* what the last call of EVM::execute returned
    meter,        \* a GasMeter: [gas, initial_gas, refunds]
    last,         \* the last operation called and what it returned
    nops,         \* number of calls made by the embedder so far
    is_static,    \* EVM.context.is_static
    state,        \* a State: [accounts, storage, codes]
    snapshot,     \* the StateSnapshot the embedder holds: [accounts, storage]
    snapshot_state \* the State as it was when that snapshot was taken

\* the variables outside the frame's own data
world == <<is_static, state, snapshot, snapshot_state>>

vars == <<stack, memory, storage, pc, gas, initial_gas, code, return_data,
          stopped, reverted, phase, entry, result, meter, last, nops, world>>

-----------------------------------------------------------------------------
(* Word = U256 *)

WORD_BYTES == 32
BYTE_BASE == 256

Min(a, b) == IF a <= b THEN a ELSE b
Max(a, b) == IF a >= b THEN a ELSE b

RECURSIVE Norm(_)
Norm(s) ==
    IF s = <<>> THEN <<>>
    ELSE IF s[Len(s)] = 0 THEN Norm(SubSeq(s, 1, Len(s) - 1))
    ELSE s

Digit(s, i) == IF i <= Len(s) THEN s[i] ELSE 0

RECURSIVE FromNat(_)
FromNat(n) ==
    IF n = 0 THEN <<>> ELSE <<n % BYTE_BASE>> \o FromNat(n \div BYTE_BASE)

Zero == <<>>
IsZero(w) == w = <<>>

\* carry propagation over column sums cols[i..], with incoming carry c
RECURSIVE CarryFrom(_, _, _)
CarryFrom(cols, i, c) ==
    IF i > Len(cols) THEN FromNat(c)
    ELSE LET t == cols[i] + c
         IN  <<t % BYTE_BASE>> \o CarryFrom(cols, i + 1, t \div BYTE_BASE)

\* a + b over the unbounded naturals
NatAdd(a, b) ==
    CarryFrom([i \in 1..Max(Len(a), Len(b)) |-> Digit(a, i) + Digit(b, i)], 1, 0)

RECURSIVE SubFrom(_, _, _, _)
SubFrom(a, b, i, br) ==
    IF i > Len(a) THEN <<>>
    ELSE LET t == Digit(a, i) - Digit(b, i) - br
         IN  IF t < 0
             THEN <<t + BYTE_BASE>> \o SubFrom(a, b, i + 1, 1)
             ELSE <<t>> \o SubFrom(a, b, i + 1, 0)

\* a - b for a >= b
NatSub(a, b) == Norm(SubFrom(a, b, 1, 0))

RECURSIVE LessFrom(_, _, _)
LessFrom(a, b, i) ==
    IF i = 0 THEN FALSE
    ELSE IF a[i] # b[i] THEN a[i] < b[i]
    ELSE LessFrom(a, b, i - 1)

NatLess(a, b) ==
    IF Len(a) # Len(b) THEN Len(a) < Len(b) ELSE LessFrom(a, b, Len(a))

\* a * k for one digit k
MulSmall(a, k) ==
    IF k = 0 THEN <<>> ELSE CarryFrom([i \in 1..Len(a) |-> a[i] * k], 1, 0)

\* the sum of a[i] * b[k + 1 - i] over i in lo..hi
RECURSIVE ColSum(_, _, _, _, _)
ColSum(a, b, k, lo, hi) ==
    IF lo > hi THEN 0 ELSE a[lo] * b[k + 1 - lo] + ColSum(a, b, k, lo + 1, hi)

\* a * b over the unbounded naturals (schoolbook, column by column)
NatMul(a, b) ==
    IF a = <<>> \/ b = <<>> THEN <<>>
    ELSE Norm(CarryFrom([k \in 1..(Len(a) + Len(b) - 1) |->
                 ColSum(a, b, k, Max(1, k + 1 - Len(b)), Min(k, Len(a)))], 1, 0))

\* the largest q in lo..hi with q * b <= r
RECURSIVE QSearch(_, _, _, _)
QSearch(r, b, lo, hi) ==
    IF lo = hi THEN lo
    ELSE LET mid == (lo + hi + 1) \div 2
         IN  IF NatLess(r, MulSmall(b, mid))
             THEN QSearch(r, b, lo, mid - 1)
             ELSE QSearch(r, b, mid, hi)

\* long division by b # 0, most significant digit first: the digits of a above
\* i have given the quotient digits q and the remainder r.  (The test on r2
\* changes nothing; it makes r2 be computed before the next digit is taken.)
RECURSIVE DivModFrom(_, _, _, _, _)
DivModFrom(a, b, i, q, r) ==
    IF i = 0 THEN [q |-> q, r |-> r]
    ELSE LET r1 == Norm(<<a[i]>> \o r)
             qd == QSearch(r1, b, 0, BYTE_BASE - 1)
             r2 == NatSub(r1, MulSmall(b, qd))
         IN  IF r2 = <<>>
             THEN DivModFrom(a, b, i - 1, <<qd>> \o q, <<>>)
             ELSE DivModFrom(a, b, i - 1, <<qd>> \o q, r2)

NatDiv(a, b) == Norm(DivModFrom(a, b, Len(a), <<>>, <<>>).q)
NatMod(a, b) == DivModFrom(a, b, Len(a), <<>>, <<>>).r

\* the low 256 bits
Low256(n) == Norm(SubSeq(n, 1, Min(Len(n), WORD_BYTES)))

\* 2^256
Pow256 == [i \in 1..(WORD_BYTES + 1) |-> IF i = WORD_BYTES + 1 THEN 1 ELSE 0]

\* 2^256 - 1
MaxWord == [i \in 1..WORD_BYTES |-> BYTE_BASE - 1]

IsWord(w) ==
    /\ Len(w) <= WORD_BYTES
    /\ \A i \in 1..Len(w) : w[i] \in 0..(BYTE_BASE - 1)
    /\ (w # <<>> => w[Len(w)] # 0)

\* U256::overflowing_add(..).0
OverflowingAdd(a, b) == Low256(NatAdd(a, b))

\* U256::overflowing_mul(..).0
OverflowingMul(a, b) == Low256(NatMul(a, b))

\* U256::overflowing_sub(..).0 : a - b mod 2^256
OverflowingSub(a, b) ==
    IF NatLess(a, b) THEN NatSub(NatAdd(a, Pow256), b) ELSE NatSub(a, b)

\* (value << 8) | Word::from(byte)
ShlOrByte(value, byte) == Low256(Norm(<<byte>> \o value))

\* U256 `/` and `%` (the callers test the divisor for zero first)
WordDiv(a, b) == NatDiv(a, b)
WordRem(a, b) == NatMod(a, b)

\* U512::from(a) + U512::from(b), then % U512::from(n), then u512_to_u256
AddMod512(a, b, n) == Low256(NatMod(NatAdd(a, b), n))

\* U512::from(a) * U512::from(b), then % U512::from(n), then u512_to_u256
MulMod512(a, b, n) == Low256(NatMod(NatMul(a, b), n))

-----------------------------------------------------------------------------
(* Result<T> and Error *)

Ok == [kind |-> "Ok", arg |-> 0]
Err(k, a) == [kind |-> k, arg |-> a]
StackOverflow == Err("StackOverflow", 0)
StackUnderflow == Err("StackUnderflow", 0)
InvalidMemoryAccess == Err("InvalidMemoryAccess", 0)
OutOfGas(g) == Err("OutOfGas", g)
InvalidJump(target) == Err("InvalidJump", target)
InvalidOpcode(byte) == Err("InvalidOpcode", byte)

-----------------------------------------------------------------------------
(* Stack: data is a Vec<Word>, the top is the last element *)

MAX_STACK_DEPTH == 1024
MAX_ACCESS_DEPTH == 16

StackNew == <<>>

\* each operation returns the stack afterwards, the Result, and the value read

\* Stack::push with the limit tested one item too late
StackPushGuardOffByOne(s, v) ==
    IF Len(s) > MAX_STACK_DEPTH
    THEN [data |-> s, res |-> StackOverflow, val |-> Zero]
    ELSE [data |-> Append(s, v), res |-> Ok, val |-> Zero]

StackPush(s, v) ==
    IF Len(s) >= MAX_STACK_DEPTH
    THEN [data |-> s, res |-> StackOverflow, val |-> Zero]
    ELSE [data |-> Append(s, v), res |-> Ok, val |-> Zero]

StackPop(s) ==
    IF s = <<>>
    THEN [data |-> s, res |-> StackUnderflow, val |-> Zero]
    ELSE [data |-> SubSeq(s, 1, Len(s) - 1), res |-> Ok, val |-> s[Len(s)]]

StackPeek(s, depth) ==
    IF depth >= Len(s)
    THEN [data |-> s, res |-> StackUnderflow, val |-> Zero]
    ELSE [data |-> s, res |-> Ok, val |-> s[Len(s) - depth]]

\* Stack::dup copying the element at depth `depth`, one below the right one
StackDupOneDeeper(s, depth) ==
    IF depth = 0 \/ depth > MAX_ACCESS_DEPTH
    THEN [data |-> s, res |-> InvalidMemoryAccess, val |-> Zero]
    ELSE LET p == StackPeek(s, depth)
         IN  IF p.res # Ok THEN p ELSE StackPush(s, p.val)

StackDup(s, depth) ==
    IF depth = 0 \/ depth > MAX_ACCESS_DEPTH
    THEN [data |-> s, res |-> InvalidMemoryAccess, val |-> Zero]
    ELSE LET p == StackPeek(s, depth - 1)
         IN  IF p.res # Ok THEN p ELSE StackPush(s, p.val)

\* Stack::swap taking depth 0 as the top itself: nothing to exchange
StackSwapAcceptsZero(s, depth) ==
    IF depth > MAX_ACCESS_DEPTH
    THEN [data |-> s, res |-> InvalidMemoryAccess, val |-> Zero]
    ELSE IF Len(s) <= depth
    THEN [data |-> s, res |-> StackUnderflow, val |-> Zero]
    ELSE LET top_index  == Len(s)
             swap_index == Len(s) - depth
         IN  [data |-> [s EXCEPT ![top_index] = s[swap_index],
                                 ![swap_index] = s[top_index]],
              res |-> Ok, val |-> Zero]

StackSwap(s, depth) ==
    IF depth = 0 \/ depth > MAX_ACCESS_DEPTH
    THEN [data |-> s, res |-> InvalidMemoryAccess, val |-> Zero]
    ELSE IF Len(s) <= depth
    THEN [data |-> s, res |-> StackUnderflow, val |-> Zero]
    ELSE LET top_index  == Len(s)
             swap_index == Len(s) - depth
         IN  [data |-> [s EXCEPT ![top_index] = s[swap_index],
                                 ![swap_index] = s[top_index]],
              res |-> Ok, val |-> Zero]

StackClear(s) == [data |-> <<>>, res |-> Ok, val |-> Zero]

StackDepth(s) == Len(s)

-----------------------------------------------------------------------------
(* Opcode: an opcode is kept as its byte (Opcode as u8) *)

OP_ADD == 1
OP_MUL == 2
OP_SUB == 3
OP_DIV == 4
OP_MOD == 6
OP_ADDMOD == 8
OP_MULMOD == 9
OP_POP == 80
OP_PUSH1 == 96
OP_PUSH32 == 127
OP_DUP1 == 128
OP_DUP16 == 143
OP_SWAP1 == 144
OP_SWAP16 == 159
OP_SLOAD == 84
OP_SSTORE == 85

is_push(opcode) == opcode \in OP_PUSH1..OP_PUSH32
is_dup(opcode) == opcode \in OP_DUP1..OP_DUP16
is_swap(opcode) == opcode \in OP_SWAP1..OP_SWAP16

\* the number of immediate bytes: n for PUSHn, 0 for the others
immediate_bytes(opcode) == IF is_push(opcode) THEN opcode - OP_PUSH1 + 1 ELSE 0

\* the depth a DUPn or SWAPn reaches: n
access_depth_bytes(opcode) ==
    IF is_dup(opcode) THEN opcode - OP_DUP1 + 1
    ELSE IF is_swap(opcode) THEN opcode - OP_SWAP1 + 1
    ELSE 0

-----------------------------------------------------------------------------
(* Opcode handlers (EVMOperation::execute).  A handler is given the frame's *)
(* stack s, program counter p and code c, and returns them as it leaves     *)
(* them, with its Result.                                                   *)

\* let a = pop()?; let b = pop()?  A failed pop returns at once, and what was
\* popped before it stays popped.
Pop2(s) ==
    LET p1 == StackPop(s)
    IN  IF p1.res # Ok
        THEN [stack |-> p1.data, res |-> p1.res, a |-> Zero, b |-> Zero]
        ELSE LET p2 == StackPop(p1.data)
             IN  [stack |-> p2.data, res |-> p2.res, a |-> p1.val, b |-> p2.val]

\* let n = pop()?; let b = pop()?; let a = pop()?
Pop3(s) ==
    LET p1 == StackPop(s)
    IN  IF p1.res # Ok
        THEN [stack |-> p1.data, res |-> p1.res,
              a |-> Zero, b |-> Zero, n |-> Zero]
        ELSE LET p2 == Pop2(p1.data)
             IN  [stack |-> p2.stack, res |-> p2.res,
                  a |-> p2.b, b |-> p2.a, n |-> p1.val]

\* evm.stack.push(result)?; Ok(())
PushResult(s, value) ==
    LET r == StackPush(s, value) IN [stack |-> r.data, res |-> r.res]

\* after the pops p of a handler: return their error, or push the result
Finish(p, value) ==
    IF p.res # Ok THEN [stack |-> p.stack, res |-> p.res]
    ELSE PushResult(p.stack, value)

\* the sum saturating at 2^256 - 1
AddResultSaturating(a, b) ==
    IF Len(NatAdd(a, b)) > WORD_BYTES THEN MaxWord ELSE NatAdd(a, b)

\* a is the first pop (the top), b the second
AddResult(a, b) == OverflowingAdd(a, b)
MulResult(a, b) == OverflowingMul(a, b)
\* the difference taken the other way round: top minus second
SubResultTopMinusSecond(a, b) == OverflowingSub(a, b)
SubResult(a, b) == OverflowingSub(b, a)
\* the quotient with dividend and divisor exchanged
DivResultSwapped(a, b) == IF IsZero(a) THEN Zero ELSE WordDiv(b, a)
DivResult(a, b) == IF IsZero(b) THEN Zero ELSE WordDiv(a, b)
ModResult(a, b) == IF IsZero(b) THEN Zero ELSE WordRem(a, b)
\* the sum wrapped to 256 bits before the reduction
AddModResultWrapped(a, b, n) ==
    IF IsZero(n) THEN Zero ELSE NatMod(OverflowingAdd(a, b), n)
AddModResult(a, b, n) == IF IsZero(n) THEN Zero ELSE AddMod512(a, b, n)
MulModResult(a, b, n) == IF IsZero(n) THEN Zero ELSE MulMod512(a, b, n)

AddOp(s) == LET p == Pop2(s) IN Finish(p, AddResult(p.a, p.b))
MulOp(s) == LET p == Pop2(s) IN Finish(p, MulResult(p.a, p.b))
SubOp(s) == LET p == Pop2(s) IN Finish(p, SubResult(p.a, p.b))
DivOp(s) == LET p == Pop2(s) IN Finish(p, DivResult(p.a, p.b))
ModOp(s) == LET p == Pop2(s) IN Finish(p, ModResult(p.a, p.b))
AddModOp(s) == LET p == Pop3(s) IN Finish(p, AddModResult(p.a, p.b, p.n))
MulModOp(s) == LET p == Pop3(s) IN Finish(p, MulModResult(p.a, p.b, p.n))

execute_arithmetic_opcode(opcode, s) ==
    CASE opcode = OP_ADD    -> AddOp(s)
      [] opcode = OP_MUL    -> MulOp(s)
      [] opcode = OP_SUB    -> SubOp(s)
      [] opcode = OP_DIV    -> DivOp(s)
      [] opcode = OP_MOD    -> ModOp(s)
      [] opcode = OP_ADDMOD -> AddModOp(s)
      [] opcode = OP_MULMOD -> MulModOp(s)
      [] OTHER              -> [stack |-> s, res |-> InvalidOpcode(opcode)]

\* for &byte in immediate_bytes { value = (value << 8) | Word::from(byte) }
RECURSIVE PushValue(_, _)
PushValue(bytes, value) ==
    IF bytes = <<>> THEN value
    ELSE PushValue(Tail(bytes), ShlOrByte(value, Head(bytes)))

\* PushOp::execute with the pc advanced once more than the bytes it has read
PushOpAdvancesTwice(bytes_to_read, s, p, c) ==
    IF p + bytes_to_read >= Len(c)
    THEN [stack |-> s, pc |-> p, res |-> InvalidJump(p + bytes_to_read)]
    ELSE LET immediate == SubSeq(c, p + 2, p + 1 + bytes_to_read)
             r         == StackPush(s, PushValue(immediate, Zero))
         IN  IF r.res # Ok
             THEN [stack |-> r.data, pc |-> p, res |-> r.res]
             ELSE [stack |-> r.data, pc |-> p + 2 + bytes_to_read, res |-> Ok]

PushOp(bytes_to_read, s, p, c) ==
    IF p + bytes_to_read >= Len(c)
    THEN [stack |-> s, pc |-> p, res |-> InvalidJump(p + bytes_to_read)]
    ELSE LET start_idx       == p + 1
             end_idx         == start_idx + bytes_to_read
             immediate       == SubSeq(c, start_idx + 1, end_idx)
             r               == StackPush(s, PushValue(immediate, Zero))
         IN  IF r.res # Ok
             THEN [stack |-> r.data, pc |-> p, res |-> r.res]
             ELSE [stack |-> r.data, pc |-> p + 1 + bytes_to_read, res |-> Ok]

SwapOp(swap_index, s, p) ==
    IF swap_index >= StackDepth(s)
    THEN [stack |-> s, pc |-> p, res |-> InvalidJump(p + swap_index)]
    ELSE LET r == StackSwap(s, swap_index)
         IN  [stack |-> r.data, pc |-> p, res |-> r.res]

DupOp(dup_index, s, p) ==
    IF dup_index >= StackDepth(s)
    THEN [stack |-> s, pc |-> p, res |-> InvalidJump(p + dup_index)]
    ELSE LET r == StackDup(s, dup_index)
         IN  [stack |-> r.data, pc |-> p, res |-> r.res]

PopOp(s, p) ==
    LET r == StackPop(s) IN [stack |-> r.data, pc |-> p, res |-> r.res]

execute_stack_opcode(opcode, s, p, c) ==
    IF is_push(opcode) THEN PushOp(immediate_bytes(opcode), s, p, c)
    ELSE IF is_swap(opcode) THEN SwapOp(access_depth_bytes(opcode), s, p)
    ELSE IF is_dup(opcode) THEN DupOp(access_depth_bytes(opcode), s, p)
    ELSE IF opcode = OP_POP THEN PopOp(s, p)
    ELSE [stack |-> s, pc |-> p, res |-> InvalidOpcode(opcode)]

\* execute_storage_opcode, a placeholder: whatever the opcode and the frame,
\* it returns InvalidOpcode(0) and touches nothing
execute_storage_opcode(opcode, s, data, static) ==
    [stack |-> s, storage |-> data, res |-> InvalidOpcode(0)]

-----------------------------------------------------------------------------
(* GasMeter.  Gas is a u64; the amounts of the model stay far below 2^64,   *)
(* where saturating_add is plain addition.                                  *)

MeterNew(gas_limit) ==
    [gas |-> gas_limit, initial_gas |-> gas_limit, refunds |-> 0]

MeterGasUsed(m) == m.initial_gas - m.gas

MeterHasGas(m, required) == m.gas >= required

\* GasMeter::consume refusing an amount equal to the remaining gas
MeterConsumeStrict(m, amount) ==
    IF m.gas <= amount
    THEN [meter |-> m, res |-> OutOfGas(m.gas)]
    ELSE [meter |-> [m EXCEPT !.gas = m.gas - amount], res |-> Ok]

MeterConsume(m, amount) ==
    IF m.gas < amount
    THEN [meter |-> m, res |-> OutOfGas(m.gas)]
    ELSE [meter |-> [m EXCEPT !.gas = m.gas - amount], res |-> Ok]

\* GasMeter::add_refund crediting the amount to the remaining gas at once
MeterAddRefundCreditsGas(m, amount) ==
    [m EXCEPT !.refunds = m.refunds + amount, !.gas = m.gas + amount]

MeterAddRefund(m, amount) == [m EXCEPT !.refunds = m.refunds + amount]

\* GasMeter::apply_refunds capped by the gas used, not by half of it
MeterApplyRefundsCapUsed(m) ==
    LET max_refund == MeterGasUsed(m)
        refund     == Min(m.refunds, max_refund)
    IN  [m EXCEPT !.gas = m.gas + refund, !.refunds = 0]

\* GasMeter::apply_refunds without the cap
MeterApplyRefundsUncapped(m) ==
    [m EXCEPT !.gas = m.gas + m.refunds, !.refunds = 0]

MeterApplyRefunds(m) ==
    LET max_refund == MeterGasUsed(m) \div 2
        refund     == Min(m.refunds, max_refund)
    IN  [m EXCEPT !.gas = m.gas + refund, !.refunds = 0]

MeterReset(m, gas_limit) ==
    [gas |-> gas_limit, initial_gas |-> gas_limit, refunds |-> 0]

-----------------------------------------------------------------------------
(* EVM: gas, control flags and the execution loop *)

\* EVM::check_gas
CheckGas(g, required) == IF g < required THEN OutOfGas(g) ELSE Ok

\* EVM::consume_gas: the gas afterwards and the Result
ConsumeGas(g, amount) ==
    IF CheckGas(g, amount) # Ok
    THEN [gas |-> g, res |-> CheckGas(g, amount)]
    ELSE [gas |-> g - amount, res |-> Ok]

\* the loop of EVM::execute without its test of the reverted flag
ExecuteContinuesIgnoringReverted(is_stopped, is_reverted, p, c) ==
    ~is_stopped /\ ~(p >= Len(c))

\* the loop of EVM::execute goes on to the next instruction
ExecuteContinues(is_stopped, is_reverted, p, c) ==
    ~(is_stopped \/ is_reverted) /\ ~(p >= Len(c))

\* EVM::execute_next_instruction without the increment of the pc
ExecuteNextInstructionStuck(p) == [pc |-> p, res |-> Ok]

\* EVM::execute_next_instruction: the pc afterwards and the Result
ExecuteNextInstruction(p) == [pc |-> p + 1, res |-> Ok]

\* the ExecutionResult EVM::execute returns (logs and contract_address left out)
ExecutionResultOf(is_reverted, g0, g, data) ==
    [success |-> ~is_reverted, gas_used |-> g0 - g, output |-> data]

-----------------------------------------------------------------------------
(* Memory: data is a Vec<u8>; byte k of the memory (counted from 0) is       *)
(* data[k + 1].  Offsets and sizes are usize; those of the model stay far    *)
(* below 2^64, where offset + size is plain addition.                        *)

\* to_big_endian with the byte order turned round: least significant first
to_little_endian(value) == [i \in 1..WORD_BYTES |-> Digit(value, i)]

\* Word::to_big_endian: the 32 bytes of a word, most significant first
to_big_endian(value) ==
    [i \in 1..WORD_BYTES |-> Digit(value, WORD_BYTES + 1 - i)]

\* Word::from_big_endian: the word of 32 bytes, most significant first
from_big_endian(bytes) ==
    Norm([i \in 1..Len(bytes) |-> bytes[Len(bytes) + 1 - i]])

\* Memory::new
MemoryNew == <<>>

\* Memory::expand_to: Vec::resize to exactly size, filling with zeros
MemoryExpandTo(data, size) ==
    IF size > Len(data)
    THEN data \o [i \in 1..(size - Len(data)) |-> 0]
    ELSE data

\* Memory::load: the memory afterwards and the word read
MemoryLoad(data, offset) ==
    LET d == MemoryExpandTo(data, offset + WORD_BYTES)
        end == Min(offset + WORD_BYTES, Len(d))
        actual_size == Max(end - offset, 0)
        bytes == [i \in 1..WORD_BYTES |->
                     IF i <= actual_size THEN d[offset + i] ELSE 0]
    IN  [data |-> d, val |-> from_big_endian(bytes)]

\* Memory::store
MemoryStore(data, offset, value) ==
    LET d == MemoryExpandTo(data, offset + WORD_BYTES)
        bytes == to_big_endian(value)
        end == offset + WORD_BYTES
    IN  IF end <= Len(d)
        THEN [i \in 1..Len(d) |->
                 IF i > offset /\ i <= end THEN bytes[i - offset] ELSE d[i]]
        ELSE d

\* Memory::store_byte
MemoryStoreByte(data, offset, value) ==
    LET d == MemoryExpandTo(data, offset + 1)
    IN  IF offset < Len(d) THEN [d EXCEPT ![offset + 1] = value] ELSE d

\* Memory::load_range: the memory afterwards and the bytes read
MemoryLoadRange(data, offset, size) ==
    LET d == MemoryExpandTo(data, offset + size)
        end == Min(offset + size, Len(d))
        actual_size == Max(end - offset, 0)
    IN  [data |-> d,
         val |-> [i \in 1..size |->
                     IF i <= actual_size THEN d[offset + i] ELSE 0]]

\* Memory::store_range
MemoryStoreRange(data, offset, bytes) ==
    IF bytes = <<>>
    THEN data
    ELSE LET d == MemoryExpandTo(data, offset + Len(bytes))
             end == offset + Len(bytes)
         IN  IF end <= Len(d)
             THEN [i \in 1..Len(d) |->
                      IF i > offset /\ i <= end THEN bytes[i - offset] ELSE d[i]]
             ELSE d

\* Memory::size
MemorySize(data) == Len(data)

\* the size in words rounded down instead of up
MemorySizeWordsRoundedDown(data) == Len(data) \div WORD_BYTES

\* Memory::size_words
MemorySizeWords(data) == (Len(data) + (WORD_BYTES - 1)) \div WORD_BYTES

\* the gas cost of a memory of the given number of words
WordsCost(words) == (words * words) \div 512 + 3 * words

\* Memory::expansion_cost
MemoryExpansionCost(data, offset, size) ==
    IF size = 0
    THEN 0
    ELSE LET new_size == offset + size
             current_words == MemorySizeWords(data)
             new_words == (new_size + (WORD_BYTES - 1)) \div WORD_BYTES
         IN  IF new_words <= current_words
             THEN 0
             ELSE WordsCost(new_words) - WordsCost(current_words)

\* Memory::clear
MemoryClear(data) == <<>>

-----------------------------------------------------------------------------
(* gas::memory_expansion_cost, a function of two sizes in bytes *)

\* 3 gas for the first word and 2 for every further one
memory_expansion_cost_two_per_further_word(current_size, new_size) ==
    IF new_size <= current_size
    THEN 0
    ELSE LET new_words == (new_size + 31) \div 32
             current_words == (current_size + 31) \div 32
         IN  (2 * new_words + 1) - (IF current_words = 0 THEN 0
                                    ELSE 2 * current_words + 1)

\* memory_expansion_cost
memory_expansion_cost(current_size, new_size) ==
    IF new_size <= current_size
    THEN 0
    ELSE LET new_words == (new_size + 31) \div 32
             current_words == (current_size + 31) \div 32
             new_cost == (new_words * new_words) \div 512 + 3 * new_words
             current_cost == (current_words * current_words) \div 512
                                 + 3 * current_words
         IN  new_cost - current_cost

-----------------------------------------------------------------------------
(* evm::gas::memory_expansion_cost, the function of the same name in the    *)
(* module gas of evm/mod.rs                                                 *)

\* the words of the current size rounded down
evm_gas_memory_expansion_cost_words_rounded_down(current_size, new_size) ==
    IF new_size <= current_size
    THEN 0
    ELSE LET new_words == (new_size + 31) \div 32
             current_words == current_size \div 32
         IN  ((new_words * new_words) \div 512 + 3 * new_words)
                 - ((current_words * current_words) \div 512
                        + 3 * current_words)

evm_gas_memory_expansion_cost(current_size, new_size) ==
    IF new_size <= current_size
    THEN 0
    ELSE LET new_words == (new_size + 31) \div 32
             current_words == (current_size + 31) \div 32
             new_cost == (new_words * new_words) \div 512 + 3 * new_words
             current_cost == (current_words * current_words) \div 512
                                 + 3 * current_words
         IN  new_cost - current_cost

-----------------------------------------------------------------------------
(* gas::costs and the pricing functions of gas/mod.rs *)

COST_LOW == 5
COST_EXP == 10
COST_LOG0 == 375
COST_LOG1 == 750
COST_LOG2 == 1125
COST_LOG3 == 1500
COST_LOG4 == 1875
EXP_PER_BIT == 50
WORD_BITS == 256

\* the bits of a byte d > 0 below its leading zeros
ByteBits(d) == CHOOSE k \in 1..8 : 2^(k - 1) <= d /\ d < 2^k

\* U256::leading_zeros
leading_zeros(value) ==
    IF IsZero(value) THEN WORD_BITS
    ELSE WORD_BITS - (8 * (Len(value) - 1) + ByteBits(value[Len(value)]))

\* exp_cost
exp_cost(exponent) ==
    IF IsZero(exponent)
    THEN COST_EXP
    ELSE LET bit_length == WORD_BITS - leading_zeros(exponent)
         IN  COST_EXP + bit_length * EXP_PER_BIT

\* log_cost; [valid |-> FALSE] is the early `return 0` of the match
LogBaseCost(topics) ==
    CASE topics = 0 -> [valid |-> TRUE, cost |-> COST_LOG0]
      [] topics = 1 -> [valid |-> TRUE, cost |-> COST_LOG1]
      [] topics = 2 -> [valid |-> TRUE, cost |-> COST_LOG2]
      [] topics = 3 -> [valid |-> TRUE, cost |-> COST_LOG3]
      [] topics = 4 -> [valid |-> TRUE, cost |-> COST_LOG4]
      [] OTHER -> [valid |-> FALSE, cost |-> 0]

log_cost(topics, data_size) ==
    LET base_cost == LogBaseCost(topics)
    IN  IF ~base_cost.valid THEN 0
        ELSE base_cost.cost + data_size * COST_LOW

-----------------------------------------------------------------------------
(* Storage: data is a HashMap<Word, Word>, kept as the set of its entries;  *)
(* no two entries have the same key.                                        *)

Entry(key, value) == [key |-> key, value |-> value]

\* Storage::new
StorageNew == {}

\* Storage::contains_key
StorageContainsKey(data, key) == \E e \in data : e.key = key

\* Storage::load
StorageLoad(data, key) ==
    IF StorageContainsKey(data, key)
    THEN (CHOOSE e \in data : e.key = key).value
    ELSE Zero

\* a store that inserts whatever value it is given, zero included
StorageStoreKeepsZero(data, key, value) ==
    {e \in data : e.key # key} \cup {Entry(key, value)}

\* Storage::store
StorageStore(data, key, value) ==
    IF IsZero(value)
    THEN {e \in data : e.key # key}
    ELSE {e \in data : e.key # key} \cup {Entry(key, value)}

\* Storage::len
StorageLen(data) == Cardinality(data)

\* Storage::is_empty
StorageIsEmpty(data) == data = {}

\* Storage::clear
StorageClear(data) == {}

\* a cost that charges the clearing of a slot at costs::STORAGE_STORE_CLEAR
StorageOperationCostCheapClear(data, key, new_value) ==
    LET current_value == StorageLoad(data, key)
    IN  IF IsZero(new_value)
        THEN (IF IsZero(current_value) THEN 0 ELSE 5000)
        ELSE 20000

\* Storage::operation_cost
StorageOperationCost(data, key, new_value) ==
    LET current_value == StorageLoad(data, key)
    IN  IF IsZero(current_value) /\ ~IsZero(new_value) THEN 20000
        ELSE IF ~IsZero(current_value) /\ IsZero(new_value) THEN 20000
        ELSE IF ~IsZero(current_value) /\ ~IsZero(new_value) THEN 20000
        ELSE 0

\* Storage::operation_refund
StorageOperationRefund(data, key, new_value) ==
    LET current_value == StorageLoad(data, key)
    IN  IF ~IsZero(current_value) /\ IsZero(new_value) THEN 15000 ELSE 0

-----------------------------------------------------------------------------
(* State: accounts is a HashMap<Address, Account>, storage a                *)
(* HashMap<Address, Storage> and codes a HashMap<Hash, Bytes>, each kept as *)
(* a function on the keys it holds.  A Hash is its 32 bytes.  Methods that  *)
(* return a Result, or that can panic, give the State afterwards and res.   *)

InsufficientBalance(required, available) ==
    Err("InsufficientBalance", <<required, available>>)
\* a panic of the call: the unwinding leaves what was not yet written
Panic == Err("panic", 0)

\* HashMap::insert
Put(map, key, value) == (key :> value) @@ map

\* Hash::zero
HashZero == [i \in 1..WORD_BYTES |-> 0]

\* Account::new_eoa
NewEoa ==
    [balance |-> Zero, nonce |-> 0, code_hash |-> HashZero,
     storage_root |-> HashZero]

\* Account::is_contract
IsContract(account) == account.code_hash # HashZero

\* State::new
StateNew == [accounts |-> <<>>, storage |-> <<>>, codes |-> <<>>]

\* State::get_account_mut: the State with the account present
GetAccountMut(s, address) ==
    IF address \in DOMAIN s.accounts
    THEN s
    ELSE [s EXCEPT !.accounts = Put(@, address, NewEoa)]

\* State::set_account
SetAccount(s, address, account) ==
    [s EXCEPT !.accounts = Put(@, address, account)]

\* State::account_exists
AccountExists(s, address) == address \in DOMAIN s.accounts

\* State::get_balance (&self): the State afterwards and the balance
GetBalance(s, address) ==
    [state |-> s,
     val |-> IF address \in DOMAIN s.accounts
             THEN s.accounts[address].balance
             ELSE Zero]

\* State::add_balance
AddBalance(s, address, amount) ==
    LET s1 == GetAccountMut(s, address)
    IN  [s1 EXCEPT !.accounts[address].balance = OverflowingAdd(@, amount)]

\* State::sub_balance
SubBalance(s, address, amount) ==
    LET s1 == GetAccountMut(s, address)
        balance == s1.accounts[address].balance
    IN  IF NatLess(balance, amount)
        THEN [state |-> s1, res |-> InsufficientBalance(amount, balance)]
        ELSE [state |-> [s1 EXCEPT !.accounts[address].balance =
                                       OverflowingSub(@, amount)],
              res |-> Ok]

\* State::transfer
Transfer(s, from, to, amount) ==
    LET r == SubBalance(s, from, amount)
    IN  IF r.res.kind # "Ok"
        THEN r
        ELSE [state |-> AddBalance(r.state, to, amount), res |-> Ok]

\* State::get_nonce (&self)
GetNonce(s, address) ==
    [state |-> s,
     val |-> IF address \in DOMAIN s.accounts
             THEN s.accounts[address].nonce
             ELSE 0]

\* State::increment_nonce
IncrementNonce(s, address) ==
    LET s1 == GetAccountMut(s, address)
    IN  [s1 EXCEPT !.accounts[address].nonce = @ + 1]

\* the code_hash set_code computes, where Hash::from_slice does not panic:
\* the first 32 bytes of the code
CodeHash(bytes) ==
    IF bytes = <<>> THEN HashZero ELSE SubSeq(bytes, 1, WORD_BYTES)

\* Hash::from_slice panics unless it is given exactly 32 bytes
HashPanics(bytes) == bytes # <<>> /\ Len(bytes) < WORD_BYTES

\* State::get_code: whether there is code (Some) and the code
GetCode(s, address) ==
    IF address \notin DOMAIN s.accounts
    THEN [some |-> FALSE, code |-> <<>>]
    ELSE LET code_hash == s.accounts[address].code_hash
         IN  IF code_hash = HashZero \/ code_hash \notin DOMAIN s.codes
             THEN [some |-> FALSE, code |-> <<>>]
             ELSE [some |-> TRUE, code |-> s.codes[code_hash]]

\* State::set_code
SetCode(s, address, bytes) ==
    IF HashPanics(bytes)
    THEN [state |-> s, res |-> Panic]
    ELSE LET code_hash == CodeHash(bytes)
             s1 == GetAccountMut(s, address)
             s2 == [s1 EXCEPT !.accounts[address].code_hash = code_hash]
         IN  [state |-> IF code_hash # HashZero
                        THEN [s2 EXCEPT !.codes = Put(@, code_hash, bytes)]
                        ELSE s2,
              res |-> Ok]

\* State::get_storage: the State with the account's Storage present
GetStorage(s, address) ==
    IF address \in DOMAIN s.storage
    THEN s
    ELSE [s EXCEPT !.storage = Put(@, address, StorageNew)]

\* State::load_storage (&self)
LoadStorage(s, address, key) ==
    IF address \in DOMAIN s.storage
    THEN StorageLoad(s.storage[address], key)
    ELSE Zero

\* State::store_storage
StoreStorage(s, address, key, value) ==
    LET s1 == GetStorage(s, address)
    IN  [s1 EXCEPT !.storage[address] = StorageStore(@, key, value)]

\* State::snapshot
SnapshotOf(s) == [accounts |-> s.accounts, storage |-> s.storage]

\* State::revert_to_snapshot
RevertToSnapshot(s, snap) ==
    [s EXCEPT !.accounts = snap.accounts, !.storage = snap.storage]

-----------------------------------------------------------------------------
(* Bounds and input sets *)

MaxOps == 2          \* calls the embedder makes on a frame or a stack
MaxGasLimit == 6     \* gas limits of the gas-meter runs
MaxRefunds == 4      \* refunds a gas meter accumulates

W(n) == FromNat(n)
Filled(n) == [i \in 1..n |-> Zero]

Codes ==
    { <<>>,
      <<OP_PUSH1, 66>>,
      <<OP_PUSH1, 5, OP_PUSH1, 3, OP_ADD>>,
      <<OP_PUSH1 + 2, 18, 52>> }

GasLimits == {2, 1000}
GasAmounts == {0, 3, 1001}

FrameStacks ==
    { <<>>,
      <<W(5)>>,
      <<W(5), W(3)>>,
      <<MaxWord, W(20), W(10)>> }

InitStacks ==
    { <<>>,
      <<W(5)>>,
      <<W(5), W(3)>>,
      <<MaxWord, W(20), W(10)>>,
      [i \in 1..(MAX_ACCESS_DEPTH + 1) |-> W(i)],
      Filled(MAX_STACK_DEPTH - 1),
      Filled(MAX_STACK_DEPTH) }

PushWords == {Zero, W(7), MaxWord}
DepthArgs == {0, 1, 2, MAX_ACCESS_DEPTH, MAX_ACCESS_DEPTH + 1}

ArithmeticOpcodes ==
    {OP_ADD, OP_MUL, OP_SUB, OP_DIV, OP_MOD, OP_ADDMOD, OP_MULMOD}
StackOpcodes ==
    {OP_POP, OP_PUSH1, OP_PUSH1 + 1, OP_PUSH1 + 2, OP_PUSH32,
     OP_DUP1, OP_DUP1 + 1, OP_DUP16, OP_SWAP1, OP_SWAP1 + 1, OP_SWAP16}

Reasons == {<<114>>}
ReturnDatas == {<<>>, <<1, 2, 3>>}

\* the last call made: its numeric argument, its word or byte-string argument,
\* its Result and the word it returned
Call(op, arg, data, res, val) ==
    [op |-> op, arg |-> arg, data |-> data, res |-> res, val |-> val]
NoCall == Call("none", 0, <<>>, Ok, <<>>)
Called(op, arg, res) == Call(op, arg, <<>>, res, <<>>)
CalledWith(op, data, res) == Call(op, 0, data, res, <<>>)
NoResult == [success |-> FALSE, gas_used |-> 0, output |-> <<>>]
FrameNow == [stack |-> stack, pc |-> pc, gas |-> gas,
             stopped |-> stopped, reverted |-> reverted]

-----------------------------------------------------------------------------
(* The execution frame: EVM::new, then calls by the embedder.  EVM::execute *)
(* holds the frame (&mut self) while its loop runs, so no other call is     *)
(* made while phase = "running".                                            *)

\* EVM::new(context, gas_limit), and a stack the embedder has pushed onto
\* a State of which the embedder has just taken a snapshot
InitWorld(s) ==
    /\ state = s
    /\ snapshot = SnapshotOf(s)
    /\ snapshot_state = s

\* EVM::new with a context whose is_static is as given
InitFrameIn(c, gas_limit, s, static) ==
    /\ stack = s
    /\ memory = <<>>
    /\ storage = {}
    /\ pc = 0
    /\ gas = gas_limit
    /\ initial_gas = gas_limit
    /\ code = c
    /\ return_data = <<>>
    /\ stopped = FALSE
    /\ reverted = FALSE
    /\ phase = "idle"
    /\ result = NoResult
    /\ last = NoCall
    /\ nops = 0
    /\ is_static = static

\* EVM::new with a context made by ExecutionContext::new
InitFrame(c, gas_limit, s) == InitFrameIn(c, gas_limit, s, FALSE)

Init ==
    /\ \/ \E c \in Codes, g \in GasLimits, s \in FrameStacks :
              InitFrame(c, g, s)
       \/ InitFrame(<<OP_PUSH1, 66>>, 1000, Filled(MAX_STACK_DEPTH))
    /\ entry = FrameNow
    /\ meter = MeterNew(0)
    /\ InitWorld(StateNew)

\* the embedder makes one more call on the frame
Counted == nops < MaxOps /\ nops' = nops + 1
\* calls that are not counted
Uncounted == UNCHANGED nops

Idle == phase = "idle"

CallExecute ==
    /\ Idle
    /\ phase' = "running"
    /\ entry' = FrameNow
    /\ UNCHANGED <<stack, memory, storage, pc, gas, initial_gas, code, world,
                   return_data, stopped, reverted, result, meter, last>>

\* one turn of the loop that goes on: self.execute_next_instruction()?
ExecuteInstruction ==
    /\ phase = "running"
    /\ ExecuteContinues(stopped, reverted, pc, code)
    /\ LET r == ExecuteNextInstruction(pc)
       IN  /\ pc' = r.pc
           /\ IF r.res = Ok
              THEN UNCHANGED <<phase, last>>
              ELSE phase' = "idle" /\ last' = Called("execute", 0, r.res)
    /\ UNCHANGED <<stack, memory, storage, gas, initial_gas, code, world, return_data,
                   stopped, reverted, entry, result, meter>>

\* the loop breaks and execute returns Ok(ExecutionResult)
ExecuteReturn ==
    /\ phase = "running"
    /\ ~ExecuteContinues(stopped, reverted, pc, code)
    /\ result' = ExecutionResultOf(reverted, initial_gas, gas, return_data)
    /\ phase' = "idle"
    /\ last' = Called("execute", 0, Ok)
    /\ UNCHANGED <<stack, memory, storage, pc, gas, initial_gas, code, world,
                   return_data, stopped, reverted, entry, meter>>

Stop ==
    /\ Idle
    /\ stopped' = TRUE
    /\ last' = Called("stop", 0, Ok)
    /\ UNCHANGED <<stack, memory, storage, pc, gas, initial_gas, code, world,
                   return_data, reverted, phase, entry, result, meter>>

Revert(reason) ==
    /\ Idle
    /\ reverted' = TRUE
    /\ return_data' = reason
    /\ last' = CalledWith("revert", reason, Ok)
    /\ UNCHANGED <<stack, memory, storage, pc, gas, initial_gas, code, world,
                   stopped, phase, entry, result, meter>>

ReturnData(data) ==
    /\ Idle
    /\ return_data' = data
    /\ stopped' = TRUE
    /\ last' = CalledWith("return_data", data, Ok)
    /\ UNCHANGED <<stack, memory, storage, pc, gas, initial_gas, code, world,
                   reverted, phase, entry, result, meter>>

EvmCheckGas(required) ==
    /\ Idle
    /\ last' = Called("check_gas", required, CheckGas(gas, required))
    /\ UNCHANGED <<stack, memory, storage, pc, gas, initial_gas, code, world,
                   return_data, stopped, reverted, phase, entry, result, meter>>

EvmConsumeGas(amount) ==
    /\ Idle
    /\ LET r == ConsumeGas(gas, amount)
       IN  /\ gas' = r.gas
           /\ last' = Called("consume_gas", amount, r.res)
    /\ UNCHANGED <<stack, memory, storage, pc, initial_gas, code, world,
                   return_data, stopped, reverted, phase, entry, result, meter>>

ExecuteArithmeticOpcode(opcode) ==
    /\ Idle
    /\ LET r == execute_arithmetic_opcode(opcode, stack)
       IN  /\ stack' = r.stack
           /\ last' = Called("execute_arithmetic_opcode", opcode, r.res)
    /\ UNCHANGED <<memory, storage, pc, gas, initial_gas, code, world, return_data,
                   stopped, reverted, phase, entry, result, meter>>

ExecuteStackOpcode(opcode) ==
    /\ Idle
    /\ LET r == execute_stack_opcode(opcode, stack, pc, code)
       IN  /\ stack' = r.stack
           /\ pc' = r.pc
           /\ last' = Called("execute_stack_opcode", opcode, r.res)
    /\ UNCHANGED <<memory, storage, gas, initial_gas, code, world, return_data,
                   stopped, reverted, phase, entry, result, meter>>

ExecuteStorageOpcode(opcode) ==
    /\ Idle
    /\ LET r == execute_storage_opcode(opcode, stack, storage, is_static)
       IN  /\ stack' = r.stack
           /\ storage' = r.storage
           /\ last' = Called("execute_storage_opcode", opcode, r.res)
    /\ UNCHANGED <<memory, pc, gas, initial_gas, code, world, return_data,
                   stopped, reverted, phase, entry, result, meter>>

Next ==
    \/ Counted /\ CallExecute
    \/ Uncounted /\ ExecuteInstruction
    \/ Uncounted /\ ExecuteReturn
    \/ Counted /\ Stop
    \/ Counted /\ \E reason \in Reasons : Revert(reason)
    \/ Counted /\ \E data \in ReturnDatas : ReturnData(data)
    \/ Counted /\ \E required \in GasAmounts : EvmCheckGas(required)
    \/ Counted /\ \E amount \in GasAmounts : EvmConsumeGas(amount)
    \/ Counted /\ \E opcode \in ArithmeticOpcodes \cup {OP_POP} :
                      ExecuteArithmeticOpcode(opcode)
    \/ Counted /\ \E opcode \in StackOpcodes \cup {OP_ADD} :
                      ExecuteStackOpcode(opcode)

Spec == Init /\ [][Next]_vars

\* the loop of EVM::execute is sequential code: once entered it keeps running
SpecLive ==
    Spec /\ WF_vars(Uncounted /\ ExecuteInstruction)
         /\ WF_vars(Uncounted /\ ExecuteReturn)

-----------------------------------------------------------------------------
(* The stack on its own: Stack::new, pushes by the embedder up to the depth *)
(* of InitStacks, then calls of the Stack methods.                          *)

InitStack ==
    /\ \E s \in InitStacks : InitFrame(<<>>, 0, s)
    /\ entry = FrameNow
    /\ meter = MeterNew(0)
    /\ InitWorld(StateNew)

StackCall(op, arg, data, r) ==
    /\ Idle
    /\ stack' = r.data
    /\ last' = Call(op, arg, data, r.res, r.val)
    /\ UNCHANGED <<memory, storage, pc, gas, initial_gas, code, world, return_data,
                   stopped, reverted, phase, entry, result, meter>>

Push(value) == StackCall("push", 0, value, StackPush(stack, value))
Pop == StackCall("pop", 0, <<>>, StackPop(stack))
Peek(depth) == StackCall("peek", depth, <<>>, StackPeek(stack, depth))
Dup(depth) == StackCall("dup", depth, <<>>, StackDup(stack, depth))
Swap(depth) == StackCall("swap", depth, <<>>, StackSwap(stack, depth))
Clear == StackCall("clear", 0, <<>>, StackClear(stack))

NextStack ==
    \/ Counted /\ \E value \in PushWords : Push(value)
    \/ Counted /\ Pop
    \/ Counted /\ \E depth \in DepthArgs : Peek(depth)
    \/ Counted /\ \E depth \in DepthArgs : Dup(depth)
    \/ Counted /\ \E depth \in DepthArgs : Swap(depth)
    \/ Counted /\ Clear

SpecStack == InitStack /\ [][NextStack]_vars

-----------------------------------------------------------------------------
(* Gas accounting: a GasMeter and the gas counter of a frame, under any     *)
(* sequence of calls with amounts up to one more than MaxGasLimit.          *)

MeterLimits == 0..MaxGasLimit
MeterAmounts == 0..(MaxGasLimit + 1)
RefundAmounts == 0..MaxRefunds

InitGas ==
    /\ InitFrame(<<>>, MaxGasLimit, <<>>)
    /\ entry = FrameNow
    /\ \E gas_limit \in MeterLimits : meter = MeterNew(gas_limit)
    /\ InitWorld(StateNew)

MeterCall(op, arg, m, res) ==
    /\ Idle
    /\ meter' = m
    /\ last' = Called(op, arg, res)
    /\ UNCHANGED <<stack, memory, storage, pc, gas, initial_gas, code, world,
                   return_data, stopped, reverted, phase, entry, result>>

Consume(amount) ==
    LET r == MeterConsume(meter, amount)
    IN  MeterCall("consume", amount, r.meter, r.res)

AddRefund(amount) ==
    /\ meter.refunds + amount <= MaxRefunds
    /\ MeterCall("add_refund", amount, MeterAddRefund(meter, amount), Ok)

ApplyRefunds == MeterCall("apply_refunds", 0, MeterApplyRefunds(meter), Ok)

Reset(gas_limit) ==
    MeterCall("reset", gas_limit, MeterReset(meter, gas_limit), Ok)

NextGas ==
    \/ Uncounted /\ \E amount \in MeterAmounts : Consume(amount)
    \/ Uncounted /\ \E amount \in RefundAmounts : AddRefund(amount)
    \/ Uncounted /\ ApplyRefunds
    \/ Uncounted /\ \E gas_limit \in MeterLimits : Reset(gas_limit)
    \/ Uncounted /\ \E required \in MeterAmounts : EvmCheckGas(required)
    \/ Uncounted /\ \E amount \in MeterAmounts : EvmConsumeGas(amount)

SpecGas == InitGas /\ [][NextGas]_vars

-----------------------------------------------------------------------------
(* The opcode handlers on their own, as functions of the frame they are     *)
(* given: a frame in the course of executing (its stack, code and pc drawn  *)
(* from the sets below), then one handler applied to it.  Sequences of      *)
(* handler calls are behaviours of Spec.                                    *)

\* 2^255
HalfWord == [i \in 1..WORD_BYTES |-> IF i = WORD_BYTES THEN 128 ELSE 0]

OperandWords == {Zero, W(3), W(5), W(10), HalfWord, MaxWord}
Moduli == {Zero, W(7), MaxWord}

\* operands a and b of the two-operand handlers; a, b and the modulus n
OperandStacks ==
    {<<>>} \cup {<<a>> : a \in OperandWords}
           \cup {<<a, b>> : a, b \in OperandWords}
           \cup {<<a, b, n>> : a, b \in {W(3), W(5), HalfWord, MaxWord},
                               n \in Moduli}

\* PUSH32 with its 32 immediate bytes 1..32
CodePush32 == <<OP_PUSH32>> \o [i \in 1..WORD_BYTES |-> i]

HandlerCodes ==
    { <<OP_PUSH1, 66>>,
      <<OP_PUSH1 + 1, 0, 7, OP_PUSH1, 0>>,
      <<OP_PUSH1 + 2, 18, 52>>,
      CodePush32 }

HandlerPcs == {0, 1, 3}

\* the operands of SSTORE and SLOAD: the key on top, the value below it
SlotStacks == {<<>>, <<W(42)>>, <<W(100), W(42)>>}
StorageOpcodes == {OP_SLOAD, OP_SSTORE}

InitOps ==
    /\ \/ \E s \in OperandStacks : InitFrame(<<>>, 1000, s)
       \/ \E c \in HandlerCodes, s \in {<<>>, <<W(5)>>, Filled(MAX_STACK_DEPTH)} :
              InitFrame(c, 1000, s)
       \/ \E s \in SlotStacks, static \in BOOLEAN :
              InitFrameIn(<<>>, 1000, s, static)
    /\ entry = FrameNow
    /\ meter = MeterNew(0)
    /\ InitWorld(StateNew)

\* the frame has executed p bytes of its code
Advance(p) ==
    /\ Idle
    /\ nops = 0
    /\ pc = 0
    /\ p > 0
    /\ code # <<>>
    /\ pc' = p
    /\ UNCHANGED <<stack, memory, storage, gas, initial_gas, code, world, return_data,
                   stopped, reverted, phase, entry, result, meter, last, nops>>

\* the handler is applied to the frame as given
HandlerCounted == last = NoCall /\ nops' = nops + 1

NextOps ==
    \/ \E p \in HandlerPcs : Advance(p)
    \/ HandlerCounted /\ \E opcode \in ArithmeticOpcodes \cup {OP_POP} :
                             ExecuteArithmeticOpcode(opcode)
    \/ HandlerCounted /\ \E opcode \in StackOpcodes \cup {OP_ADD} :
                             ExecuteStackOpcode(opcode)
    \/ HandlerCounted /\ \E opcode \in StorageOpcodes :
                             ExecuteStorageOpcode(opcode)

SpecOps == InitOps /\ [][NextOps]_vars

-----------------------------------------------------------------------------
(* The memory on its own: a Memory in the course of an execution (empty, or  *)
(* as earlier stores left it), then calls of the Memory methods.  A size     *)
(* argument and a returned gas amount are kept in the call record as         *)
(* one-element sequences.                                                    *)

PatternWord == [i \in 1..WORD_BYTES |-> i]

InitMemories ==
    { MemoryNew,
      MemoryStore(MemoryNew, 0, MaxWord),
      MemoryStoreRange(MemoryNew, 0, [i \in 1..40 |-> i]) }

MemOffsets == {0, 1, 32, 33}
MemWords == {W(7), MaxWord, PatternWord}
MemBytes == {171}
MemRanges == {<<>>, <<1, 2, 3>>}
MemSizes == {0, 1, 64}
CostSizes == {0, 32, 1024}
ByteSizes == {0, 32, 50, 64, 100, 1024}

InitMem ==
    /\ stack = <<>>
    /\ \E data \in InitMemories : memory = data
    /\ storage = {}
    /\ pc = 0
    /\ gas = 0
    /\ initial_gas = 0
    /\ code = <<>>
    /\ return_data = <<>>
    /\ stopped = FALSE
    /\ reverted = FALSE
    /\ phase = "idle"
    /\ result = NoResult
    /\ last = NoCall
    /\ nops = 0
    /\ is_static = FALSE
    /\ state = StateNew
    /\ snapshot = SnapshotOf(StateNew)
    /\ snapshot_state = StateNew
    /\ entry = FrameNow
    /\ meter = MeterNew(0)

MemoryCall(op, arg, data, m, val) ==
    /\ Idle
    /\ memory' = m
    /\ last' = Call(op, arg, data, Ok, val)
    /\ UNCHANGED <<stack, storage, pc, gas, initial_gas, code, world, return_data,
                   stopped, reverted, phase, entry, result, meter>>

Load(offset) ==
    LET r == MemoryLoad(memory, offset)
    IN  MemoryCall("load", offset, <<>>, r.data, r.val)

Store(offset, value) ==
    MemoryCall("store", offset, value, MemoryStore(memory, offset, value), <<>>)

StoreByte(offset, value) ==
    MemoryCall("store_byte", offset, <<value>>,
               MemoryStoreByte(memory, offset, value), <<>>)

LoadRange(offset, size) ==
    LET r == MemoryLoadRange(memory, offset, size)
    IN  MemoryCall("load_range", offset, <<size>>, r.data, r.val)

StoreRange(offset, bytes) ==
    MemoryCall("store_range", offset, bytes,
               MemoryStoreRange(memory, offset, bytes), <<>>)

ExpandTo(size) ==
    MemoryCall("expand_to", size, <<>>, MemoryExpandTo(memory, size), <<>>)

ExpansionCost(offset, size) ==
    MemoryCall("expansion_cost", offset, <<size>>, memory,
               <<MemoryExpansionCost(memory, offset, size)>>)

Size == MemoryCall("size", 0, <<>>, memory, <<MemorySize(memory)>>)

SizeWords ==
    MemoryCall("size_words", 0, <<>>, memory, <<MemorySizeWords(memory)>>)

ClearMemory == MemoryCall("clear", 0, <<>>, MemoryClear(memory), <<>>)

\* gas::memory_expansion_cost, called with two sizes
GasMemoryExpansionCost(current_size, new_size) ==
    MemoryCall("memory_expansion_cost", current_size, <<new_size>>, memory,
               <<memory_expansion_cost(current_size, new_size)>>)

\* evm::gas::memory_expansion_cost, called with two sizes
EvmGasMemoryExpansionCost(current_size, new_size) ==
    MemoryCall("evm::gas::memory_expansion_cost", current_size, <<new_size>>,
               memory, <<evm_gas_memory_expansion_cost(current_size, new_size)>>)

NextMem ==
    \/ Counted /\ \E offset \in MemOffsets : Load(offset)
    \/ Counted /\ \E offset \in MemOffsets, value \in MemWords :
                      Store(offset, value)
    \/ Counted /\ \E offset \in MemOffsets, value \in MemBytes :
                      StoreByte(offset, value)
    \/ Counted /\ \E offset \in MemOffsets, size \in MemSizes :
                      LoadRange(offset, size)
    \/ Counted /\ \E offset \in MemOffsets, bytes \in MemRanges :
                      StoreRange(offset, bytes)
    \/ Counted /\ \E size \in MemSizes : ExpandTo(size)
    \/ Counted /\ \E offset \in MemOffsets, size \in CostSizes :
                      ExpansionCost(offset, size)
    \/ Counted /\ Size
    \/ Counted /\ SizeWords
    \/ Counted /\ ClearMemory
    \/ Counted /\ \E current_size \in ByteSizes, new_size \in ByteSizes :
                      GasMemoryExpansionCost(current_size, new_size)
    \/ Counted /\ \E current_size \in ByteSizes, new_size \in ByteSizes :
                      EvmGasMemoryExpansionCost(current_size, new_size)

SpecMem == InitMem /\ [][NextMem]_vars

-----------------------------------------------------------------------------
(* The storage on its own: Storage::new, then any sequence of calls of the  *)
(* Storage methods.  The call record keeps the key and the value given as   *)
(* data, a returned word as val, a returned number or boolean as a          *)
(* one-element val and, for store, the value the slot held before the call. *)

StorageKeys == {W(1), W(42), W(69)}
StorageValues == {Zero, W(100), W(200)}

InitStore ==
    /\ InitFrame(<<>>, 0, <<>>)
    /\ storage = StorageNew
    /\ entry = FrameNow
    /\ meter = MeterNew(0)
    /\ InitWorld(StateNew)

StorageCall(op, data, s, val) ==
    /\ Idle
    /\ storage' = s
    /\ last' = Call(op, 0, data, Ok, val)
    /\ UNCHANGED <<stack, memory, pc, gas, initial_gas, code, world, return_data,
                   stopped, reverted, phase, entry, result, meter>>

LoadSlot(key) ==
    StorageCall("load", <<key>>, storage, StorageLoad(storage, key))

StoreSlot(key, value) ==
    StorageCall("store", <<key, value>>, StorageStore(storage, key, value),
                StorageLoad(storage, key))

ContainsKey(key) ==
    StorageCall("contains_key", <<key>>, storage,
                <<StorageContainsKey(storage, key)>>)

SlotCount == StorageCall("len", <<>>, storage, <<StorageLen(storage)>>)

IsEmpty == StorageCall("is_empty", <<>>, storage, <<StorageIsEmpty(storage)>>)

ClearStorage == StorageCall("clear", <<>>, StorageClear(storage), <<>>)

OperationCost(key, new_value) ==
    StorageCall("operation_cost", <<key, new_value>>, storage,
                <<StorageOperationCost(storage, key, new_value)>>)

OperationRefund(key, new_value) ==
    StorageCall("operation_refund", <<key, new_value>>, storage,
                <<StorageOperationRefund(storage, key, new_value)>>)

NextStore ==
    \/ Uncounted /\ \E key \in StorageKeys : LoadSlot(key)
    \/ Uncounted /\ \E key \in StorageKeys, value \in StorageValues :
                        StoreSlot(key, value)
    \/ Uncounted /\ \E key \in StorageKeys : ContainsKey(key)
    \/ Uncounted /\ SlotCount
    \/ Uncounted /\ IsEmpty
    \/ Uncounted /\ ClearStorage
    \/ Uncounted /\ \E key \in StorageKeys, value \in StorageValues :
                        OperationCost(key, value)
    \/ Uncounted /\ \E key \in StorageKeys, value \in StorageValues :
                        OperationRefund(key, value)

SpecStore == InitStore /\ [][NextStore]_vars

-----------------------------------------------------------------------------
(* The world state on its own: State::new, of which the embedder takes a    *)
(* first snapshot, then calls of the State methods.  The embedder keeps the *)
(* last snapshot it took and may revert to it at any time.  The call record *)
(* keeps the address as arg and the other arguments as data.                *)

\* Address::from([n; 20]) is kept as n
Addresses == {1, 2}
Amounts == {W(300), MaxWord}

\* the code of test_code_operations, two codes with the same first 32 bytes
\* and a code that starts with 32 zero bytes
ShortCode == <<96, 1, 96, 2, 1>>
CodeA == [i \in 1..WORD_BYTES |-> i] \o <<1>>
CodeB == [i \in 1..WORD_BYTES |-> i] \o <<2>>
CodeZ == [i \in 1..WORD_BYTES |-> 0] \o <<96>>
StateCodes == {<<>>, ShortCode, CodeA, CodeB, CodeZ}

SlotKeys == {W(1)}
SlotValues == {Zero, W(100), W(200)}
GivenAccounts ==
    {[balance |-> W(1000), nonce |-> 1, code_hash |-> HashZero,
      storage_root |-> HashZero]}

\* a State in the course of a run: account 1 holds 1000 and account 2 the
\* largest balance
FundedState == AddBalance(AddBalance(StateNew, 1, W(1000)), 2, MaxWord)

InitState ==
    /\ InitFrame(<<>>, 0, <<>>)
    /\ entry = FrameNow
    /\ meter = MeterNew(0)
    /\ \E s \in {StateNew, FundedState} : InitWorld(s)

StateCall(op, address, data, s, res, val) ==
    /\ Idle
    /\ state' = s
    /\ last' = Call(op, address, data, res, val)
    /\ UNCHANGED <<stack, memory, storage, pc, gas, initial_gas, code,
                   return_data, stopped, reverted, phase, entry, result,
                   meter, is_static>>

Mutation(op, address, data, s, res) ==
    /\ StateCall(op, address, data, s, res, <<>>)
    /\ UNCHANGED <<snapshot, snapshot_state>>

Query(op, address, data, r) ==
    /\ StateCall(op, address, data, r.state, Ok, r.val)
    /\ UNCHANGED <<snapshot, snapshot_state>>

CallGetAccountMut(address) ==
    Mutation("get_account_mut", address, <<>>, GetAccountMut(state, address), Ok)

CallSetAccount(address, account) ==
    Mutation("set_account", address, <<account>>,
             SetAccount(state, address, account), Ok)

CallAccountExists(address) ==
    Query("account_exists", address, <<>>,
          [state |-> state, val |-> <<AccountExists(state, address)>>])

CallGetBalance(address) ==
    Query("get_balance", address, <<>>, GetBalance(state, address))

CallAddBalance(address, amount) ==
    Mutation("add_balance", address, <<amount>>,
             AddBalance(state, address, amount), Ok)

CallSubBalance(address, amount) ==
    LET r == SubBalance(state, address, amount)
    IN  Mutation("sub_balance", address, <<amount>>, r.state, r.res)

CallTransfer(from, to, amount) ==
    LET r == Transfer(state, from, to, amount)
    IN  Mutation("transfer", from, <<to, amount>>, r.state, r.res)

CallGetNonce(address) ==
    LET r == GetNonce(state, address)
    IN  Query("get_nonce", address, <<>>,
              [state |-> r.state, val |-> <<r.val>>])

CallIncrementNonce(address) ==
    Mutation("increment_nonce", address, <<>>,
             IncrementNonce(state, address), Ok)

CallGetCode(address) ==
    LET r == GetCode(state, address)
    IN  Query("get_code", address, <<r.some>>,
              [state |-> state, val |-> r.code])

CallSetCode(address, bytes) ==
    LET r == SetCode(state, address, bytes)
    IN  Mutation("set_code", address, bytes, r.state, r.res)

CallGetStorage(address) ==
    Mutation("get_storage", address, <<>>, GetStorage(state, address), Ok)

CallLoadStorage(address, key) ==
    Query("load_storage", address, <<key>>,
          [state |-> state, val |-> LoadStorage(state, address, key)])

CallStoreStorage(address, key, value) ==
    Mutation("store_storage", address, <<key, value>>,
             StoreStorage(state, address, key, value), Ok)

CallSnapshot ==
    /\ StateCall("snapshot", 0, <<>>, state, Ok, <<>>)
    /\ snapshot' = SnapshotOf(state)
    /\ snapshot_state' = state

CallRevertToSnapshot ==
    /\ StateCall("revert_to_snapshot", 0, <<>>,
                 RevertToSnapshot(state, snapshot), Ok, <<>>)
    /\ UNCHANGED <<snapshot, snapshot_state>>

NextState ==
    \/ Counted /\ \E a \in Addresses : CallGetAccountMut(a)
    \/ Counted /\ \E a \in Addresses, account \in GivenAccounts :
                      CallSetAccount(a, account)
    \/ Counted /\ \E a \in Addresses : CallAccountExists(a)
    \/ Counted /\ \E a \in Addresses : CallGetBalance(a)
    \/ Counted /\ \E a \in Addresses, amount \in Amounts :
                      CallAddBalance(a, amount)
    \/ Counted /\ \E a \in Addresses, amount \in Amounts :
                      CallSubBalance(a, amount)
    \/ Counted /\ \E from \in Addresses, to \in Addresses, amount \in Amounts :
                      CallTransfer(from, to, amount)
    \/ Counted /\ \E a \in Addresses : CallGetNonce(a)
    \/ Counted /\ \E a \in Addresses : CallIncrementNonce(a)
    \/ Counted /\ \E a \in Addresses : CallGetCode(a)
    \/ Counted /\ \E a \in Addresses, bytes \in StateCodes : CallSetCode(a, bytes)
    \/ Counted /\ \E a \in Addresses : CallGetStorage(a)
    \/ Counted /\ \E a \in Addresses, key \in SlotKeys : CallLoadStorage(a, key)
    \/ Counted /\ \E a \in Addresses, key \in SlotKeys, value \in SlotValues :
                      CallStoreStorage(a, key, value)
    \/ Uncounted /\ CallSnapshot
    \/ Uncounted /\ CallRevertToSnapshot

SpecState == InitState /\ [][NextState]_vars

-----------------------------------------------------------------------------
(* The pricing functions of gas/mod.rs on their own: pure functions, each   *)
(* applied to arguments drawn from the sets below.                          *)

MaxExponent == 300   \* the exponents 0..MaxExponent are all priced
MaxTopics == 6       \* topic counts given to log_cost

Exponents ==
    {W(n) : n \in 0..MaxExponent} \cup {W(65535), W(65536), HalfWord, MaxWord}
TopicCounts == 0..MaxTopics
DataSizes == {0, 1, 32, 33, 1000}

InitCost ==
    /\ InitFrame(<<>>, 0, <<>>)
    /\ entry = FrameNow
    /\ meter = MeterNew(0)
    /\ InitWorld(StateNew)

\* a pricing function has been applied: nothing but the call record changes
Priced(op, arg, data, cost) ==
    /\ last' = Call(op, arg, data, Ok, <<cost>>)
    /\ UNCHANGED <<stack, memory, storage, pc, gas, initial_gas, code, world,
                   return_data, stopped, reverted, phase, entry, result, meter,
                   nops>>

ExpCost(exponent) == Priced("exp_cost", 0, exponent, exp_cost(exponent))

LogCost(topics, data_size) ==
    Priced("log_cost", topics, <<data_size>>, log_cost(topics, data_size))

NextCost ==
    \/ \E exponent \in Exponents : ExpCost(exponent)
    \/ \E topics \in TopicCounts, data_size \in DataSizes :
           LogCost(topics, data_size)

SpecCost == InitCost /\ [][NextCost]_vars

-----------------------------------------------------------------------------
(* Properties *)

\* the step is a call of an opcode handler by the embedder
HandlerStep ==
    nops' # nops
        /\ last'.op \in {"execute_arithmetic_opcode", "execute_stack_opcode"}

\* the step is a call of the operation named op: each step of SpecStack and
\* of SpecGas that changes the state records its call in last
CallStep(op) == last'.op = op

\* C1: a handler step that returns an error leaves the stack, the memory, the
\* storage and the pc as they were before the step; a two-operand handler on
\* a stack of one item, or ADDMOD/MULMOD on one or two items, fails with the
\* items still on the stack.
C1_FailedHandlerLeavesFrame ==
    [][HandlerStep /\ last'.res # Ok =>
           /\ stack' = stack
           /\ memory' = memory
           /\ storage' = storage
           /\ pc' = pc]_vars

\* C2: after any sequence of Stack operations the depth is within 0..1024; a
\* push at depth 1024 fails with StackOverflow and a pop at depth 0 fails
\* with StackUnderflow, and each leaves the stack unchanged.
C2_StackDepthBounded ==
    [][/\ Len(stack) <= 1024
       /\ Len(stack') <= 1024
       /\ (CallStep("push") /\ Len(stack) = 1024 =>
               last'.res = StackOverflow /\ stack' = stack)
       /\ (CallStep("pop") /\ Len(stack) = 0 =>
               last'.res = StackUnderflow /\ stack' = stack)]_vars

\* a push was refused on a stack of 1024 items
C2_Witness ==
    /\ last.op = "push"
    /\ last.res = StackOverflow
    /\ Len(stack) = 1024

\* EVM::execute was entered on a frame as EVM::new leaves it
Fresh ==
    /\ entry.pc = 0
    /\ entry.stack = <<>>
    /\ ~entry.stopped
    /\ ~entry.reverted
    /\ entry.gas = initial_gas

\* the step is the return of EVM::execute
ExecuteEnds == phase = "running" /\ phase' = "idle"

\* C3: when EVM::execute ends with an error other than REVERT the frame's gas
\* is 0 afterwards; the code 62 12 34 (a PUSH3 with two immediate bytes) ends
\* with InvalidJump and no gas left; revert() leaves the gas as it was.
C3_ErrorBurnsAllGas ==
    [][/\ (ExecuteEnds /\ last'.res # Ok => gas' = 0)
       /\ (ExecuteEnds /\ Fresh /\ code = <<98, 18, 52>> =>
               last'.res.kind = "InvalidJump" /\ gas' = 0)
       /\ (nops' # nops /\ last'.op = "revert" => gas' = gas)]_vars

\* C4: GasMeter::consume(n) and EVM::consume_gas(n) with n > remaining fail
\* with OutOfGas carrying the remaining gas and change nothing; with
\* n <= remaining (n = remaining included) they succeed and the remaining
\* gas decreases by exactly n.
C4_ConsumeAllOrNothing ==
    [][/\ (CallStep("consume") =>
               LET n == last'.arg
               IN  IF n > meter.gas
                   THEN last'.res = OutOfGas(meter.gas) /\ meter' = meter
                   ELSE /\ last'.res = Ok
                        /\ meter'.gas = meter.gas - n
                        /\ meter'.initial_gas = meter.initial_gas
                        /\ meter'.refunds = meter.refunds)
       /\ (CallStep("consume_gas") =>
               LET n == last'.arg
               IN  IF n > gas
                   THEN /\ last'.res = OutOfGas(gas)
                        /\ gas' = gas
                        /\ initial_gas' = initial_gas
                   ELSE /\ last'.res = Ok
                        /\ gas' = gas - n
                        /\ initial_gas' = initial_gas)]_vars

\* consume was refused on a meter that has gas and refunds left
C4_Witness ==
    /\ last.op = "consume"
    /\ last.res = OutOfGas(meter.gas)
    /\ meter.gas > 0
    /\ meter.refunds > 0

C6_RemainingAtMostInitial ==
    /\ meter.gas <= meter.initial_gas
    /\ MeterGasUsed(meter) >= 0

\* apply_refunds has left the meter one unit below its initial gas
C6_Witness ==
    /\ last.op = "apply_refunds"
    /\ meter.gas = meter.initial_gas - 1

\* C7 as stated: the remaining gas never increases except in apply_refunds.
C7_OnlyApplyRefundsRaisesGas ==
    [][~CallStep("apply_refunds") => meter'.gas <= meter.gas /\ gas' <= gas]_vars

\* C7, amended: the remaining gas never increases except in apply_refunds
\* and in reset, which sets it to the new limit; consume, add_refund and the
\* frame's check_gas and consume_gas leave it equal or lower.
C7_OnlyApplyRefundsAndResetRaiseGas ==
    [][~CallStep("apply_refunds") /\ ~CallStep("reset") =>
           meter'.gas <= meter.gas /\ gas' <= gas]_vars

\* consume has lowered the remaining gas of a meter that holds refunds
C7_Witness ==
    /\ last.op = "consume"
    /\ last.res = Ok
    /\ last.arg > 0
    /\ meter.gas < meter.initial_gas
    /\ meter.refunds > 0

\* C8: EVM::execute executes an instruction only while the frame is neither
\* stopped nor reverted and pc < |code|; with a flag set by stop(),
\* return_data() or revert() no instruction is executed and pc, stack and gas
\* stay as they were; when execute returns Ok the result has success = not
\* reverted, gas_used = initial_gas - gas and output = return_data (for empty
\* code on a new frame: success, gas_used 0, empty output).
C8_ExecuteLoopAndResult ==
    [][phase = "running" =>
           /\ (phase' = "running" =>
                   ~stopped /\ ~reverted /\ pc < Len(code) /\ pc' = pc + 1)
           /\ (stopped \/ reverted =>
                   phase' = "idle" /\ pc' = pc /\ stack' = stack /\ gas' = gas)
           /\ (phase' = "idle" /\ last'.res = Ok =>
                   /\ result'.success = ~reverted
                   /\ result'.gas_used = initial_gas - gas
                   /\ result'.output = return_data
                   /\ pc' = pc /\ stack' = stack /\ gas' = gas)
           /\ (phase' = "idle" /\ Fresh /\ code = <<>> /\ return_data = <<>> =>
                   /\ last'.res = Ok
                   /\ result' = [success |-> TRUE, gas_used |-> 0,
                                 output |-> <<>>])]_vars

\* execute has returned on a reverted frame with code left, and has executed
\* nothing
C8_Witness ==
    /\ last.op = "execute"
    /\ phase = "idle"
    /\ reverted
    /\ ~result.success
    /\ result.output = <<114>>
    /\ pc = entry.pc
    /\ pc < Len(code)

\* C9: for every bytecode and gas limit EVM::execute terminates: a frame that
\* is executing is eventually stopped, reverted, failed or at pc >= |code|,
\* and execute has returned.
C9_ExecuteTerminates ==
    (phase = "running") ~>
        (phase = "idle" /\ last.op = "execute"
                        /\ (stopped \/ reverted \/ last.res # Ok \/ pc >= Len(code)))

\* execute has run through code of three bytes and has returned
C9_Witness ==
    /\ last.op = "execute"
    /\ phase = "idle"
    /\ ~stopped
    /\ ~reverted
    /\ entry.pc = 0
    /\ Len(code) = 3
    /\ pc = 3

\* C10: during execute every executed instruction is charged its base gas, so
\* straight-line code that ends normally uses the sum of the base costs:
\* PUSH1 5; PUSH1 3; ADD ends with stack [8] and gas_used = 9, and a lone
\* PUSH1 ends with one item on the stack and gas_used = 3.
C10_BaseGasCharged ==
    phase = "idle" /\ last.op = "execute" /\ last.res = Ok /\ Fresh
                   /\ initial_gas >= 9 =>
        /\ (code = <<96, 66>> => result.gas_used = 3 /\ Len(stack) = 1)
        /\ (code = <<96, 5, 96, 3, 1>> =>
                result.gas_used = 9 /\ stack = <<FromNat(8)>>)

\* the word whose big-endian bytes are given
RECURSIVE Reverse(_)
Reverse(s) == IF s = <<>> THEN <<>> ELSE Reverse(Tail(s)) \o <<Head(s)>>

BigEndianValue(bytes) == Norm(Reverse(bytes))

HandlerOn(byte, k) ==
    /\ nops' # nops
    /\ last'.op = (IF byte < 80 THEN "execute_arithmetic_opcode"
                               ELSE "execute_stack_opcode")
    /\ last'.arg = byte
    /\ Len(stack) >= k

\* the stack without its k topmost items
Below(s, k) == SubSeq(s, 1, Len(s) - k)

\* the item at depth k (0 = top)
At(s, k) == s[Len(s) - k]

\* C13: ADD and MUL pop two words a and b and push (a + b) mod 2^256 and
\* (a * b) mod 2^256: the result wraps, the depth decreases by one, and the
\* result does not depend on the order of the two operands.
C13_AddMulWrap ==
    [][LET a == At(stack, 0)
           b == At(stack, 1)
           swapped == Below(stack, 2) \o <<a, b>>
       IN  /\ (HandlerOn(1, 2) =>
                   /\ last'.res = Ok
                   /\ stack' = Append(Below(stack, 2),
                                      NatMod(NatAdd(a, b), Pow256))
                   /\ AddOp(swapped).stack = stack')
           /\ (HandlerOn(2, 2) =>
                   /\ last'.res = Ok
                   /\ stack' = Append(Below(stack, 2),
                                      NatMod(NatMul(a, b), Pow256))
                   /\ MulOp(swapped).stack = stack')]_vars

\* ADD of 2^256 - 1 and 3 has pushed 2
C13_Witness ==
    /\ last.op = "execute_arithmetic_opcode"
    /\ last.arg = 1
    /\ last.res = Ok
    /\ entry.stack = <<MaxWord, FromNat(3)>>
    /\ stack = <<FromNat(2)>>

\* x - y mod 2^256
WrapSub(x, y) == NatMod(NatSub(NatAdd(x, Pow256), y), Pow256)

\* C14: SUB pushes (s[0] - s[1]) mod 2^256, s[0] the top of the stack and
\* s[1] the item below it: after PUSH1 5; PUSH1 3 (top 3, below 5) the result
\* is 3 - 5 = 2^256 - 2, which is not zero.
C14_SubTopMinusSecond ==
    [][HandlerOn(3, 2) =>
           /\ last'.res = Ok
           /\ stack' = Append(Below(stack, 2),
                              WrapSub(At(stack, 0), At(stack, 1)))
           /\ (stack = <<FromNat(5), FromNat(3)>> =>
                   stack' = <<NatSub(Pow256, FromNat(2))>>)]_vars

IsQuotient(q, a, b) ==
    ~NatLess(a, NatMul(q, b)) /\ NatLess(a, NatMul(NatAdd(q, FromNat(1)), b))
IsRemainder(r, a, b) ==
    LET k == DivResult(a, b)
    IN  IsQuotient(k, a, b) /\ NatAdd(NatMul(k, b), r) = a /\ NatLess(r, b)

\* C16: DIV and MOD take the dividend from the top of the stack and the
\* divisor from the item below it; with divisor 0 they push 0 and succeed,
\* otherwise they push floor(dividend / divisor) and dividend mod divisor; two
\* items are consumed and one produced.
C16_DivModTopByBelow ==
    [][LET dividend == At(stack, 0)
           divisor  == At(stack, 1)
           pushed   == At(stack', 0)
       IN  /\ (HandlerOn(4, 2) \/ HandlerOn(6, 2) =>
                   /\ last'.res = Ok
                   /\ Len(stack') = Len(stack) - 1
                   /\ Below(stack', 1) = Below(stack, 2)
                   /\ (divisor = Zero => pushed = Zero))
           /\ (HandlerOn(4, 2) /\ divisor # Zero =>
                   IsQuotient(pushed, dividend, divisor))
           /\ (HandlerOn(6, 2) /\ divisor # Zero =>
                   IsRemainder(pushed, dividend, divisor))]_vars

\* DIV with 10 on top and 3 below has pushed 3
C16_Witness ==
    /\ last.op = "execute_arithmetic_opcode"
    /\ last.arg = 4
    /\ last.res = Ok
    /\ entry.stack = <<FromNat(3), FromNat(10)>>
    /\ stack = <<FromNat(3)>>

\* C17: ADDMOD and MULMOD, with the modulus n on top of the stack and the
\* operands b and a below it, push 0 when n = 0 and otherwise (a + b) mod n
\* and (a * b) mod n computed over the unbounded integers, whether or not the
\* sum or product exceeds 2^256 - 1; three items are consumed and one
\* produced.
C17_ModularOverUnbounded ==
    [][LET n == At(stack, 0)
           b == At(stack, 1)
           a == At(stack, 2)
       IN  /\ (HandlerOn(8, 3) =>
                   /\ last'.res = Ok
                   /\ stack' = Append(Below(stack, 3),
                                 IF n = Zero THEN Zero
                                 ELSE NatMod(NatAdd(a, b), n)))
           /\ (HandlerOn(9, 3) =>
                   /\ last'.res = Ok
                   /\ stack' = Append(Below(stack, 3),
                                 IF n = Zero THEN Zero
                                 ELSE NatMod(NatMul(a, b), n)))]_vars

\* ADDMOD of 2^256 - 1 and 5 modulo 7 has pushed 6 (the wrapped sum 4 would
\* give 4)
C17_Witness ==
    /\ last.op = "execute_arithmetic_opcode"
    /\ last.arg = 8
    /\ last.res = Ok
    /\ entry.stack = <<MaxWord, FromNat(5), FromNat(7)>>
    /\ stack = <<FromNat(6)>>

-----------------------------------------------------------------------------
(* Memory *)

\* a call of one of the named Memory methods
MemoryStep(ops) == nops' # nops /\ last'.op \in ops

\* the Memory methods that read or write the memory, or expand it
ExpandingMethods ==
    {"load", "store", "store_byte", "load_range", "store_range", "expand_to"}

\* C18: after every Memory operation (load, store, store_byte, load_range,
\* store_range, expand_to) the size of the memory in bytes is a multiple of
\* 32 and is at least its size before the operation.
C18_SizeMultipleOf32NonDecreasing ==
    [][MemoryStep(ExpandingMethods) =>
          /\ Len(memory') % WORD_BYTES = 0
          /\ Len(memory') >= Len(memory)]_vars

\* C19: store(off, w) followed immediately by load(off) returns w, for
\* aligned and unaligned offsets and whatever the memory held before.
C19_StoreLoadRoundTrip ==
    [][(/\ last.op = "store"
        /\ MemoryStep({"load"})
        /\ last'.arg = last.arg) => last'.val = last.data]_vars

\* a word with 32 different bytes stored at the unaligned offset 33 of a
\* memory that held other bytes, and loaded from there
C19_Witness ==
    /\ last.op = "load"
    /\ last.arg = 33
    /\ last.val = PatternWord
    /\ nops = 2
    /\ memory[1] # 0

\* C(x) = x*x / 512 + 3*x
CostC(x) == (x * x) \div 512 + 3 * x

\* the incremental cost of touching offset..offset+size from w0 words
IncrementalCost(w0, offset, size) ==
    IF size = 0
    THEN 0
    ELSE LET w == (offset + size + 31) \div 32
         IN  IF w > w0 THEN CostC(w) - CostC(w0) ELSE 0

CostReturned(current_size, new_size, cost) ==
    (/\ last.op = "memory_expansion_cost"
     /\ last.arg = current_size
     /\ last.data = <<new_size>>) => last.val = <<cost>>

C22_EmptyLoadRangeLeavesMemory ==
    [][(MemoryStep({"load_range"}) /\ last'.data = <<0>>) =>
          /\ last'.val = <<>>
          /\ memory' = memory]_vars

-----------------------------------------------------------------------------
(* Storage *)

\* the keys whose current value is not zero
NonZeroKeys == {key \in StorageKeys : StorageLoad(storage, key) # Zero}

\* C23: after any sequence of store and clear calls no entry of the map has
\* value 0: contains_key(k) holds exactly when load(k) # 0, the load of an
\* absent key returns 0, and len() is the number of keys whose value is not 0.
C23_NoZeroEntries ==
    /\ \A e \in storage : e.value # Zero
    /\ \A key \in StorageKeys :
          /\ StorageContainsKey(storage, key)
                 <=> (StorageLoad(storage, key) # Zero)
          /\ (\A e \in storage : e.key # key)
                 => StorageLoad(storage, key) = Zero
    /\ StorageLen(storage) = Cardinality(NonZeroKeys)
    /\ (last.op = "len") => last.val = <<Cardinality(NonZeroKeys)>>
    /\ (last.op = "contains_key")
          => last.val = <<StorageLoad(storage, last.data[1]) # Zero>>

\* key 42 held 100 and a store of 0 has removed it: len() = 0, load(42) = 0
C23_Witness ==
    /\ last.op = "store"
    /\ last.data = <<W(42), Zero>>
    /\ last.val = W(100)
    /\ StorageLen(storage) = 0
    /\ StorageLoad(storage, W(42)) = Zero
    /\ ~StorageContainsKey(storage, W(42))

-----------------------------------------------------------------------------
(* State *)

\* what get_balance, get_nonce, account_exists and load_storage return for
\* an address
ObservedAccount(s, address) ==
    [balance |-> GetBalance(s, address).val,
     nonce |-> GetNonce(s, address).val,
     exists |-> AccountExists(s, address),
     slots |-> [key \in SlotKeys |-> LoadStorage(s, address, key)]]

\* C25: revert_to_snapshot(snap) restores the observable state: get_balance,
\* get_nonce, account_exists, get_code and load_storage return for every
\* address and key what they returned when the snapshot was taken.
C25_RevertRestoresObservableState ==
    [][CallStep("revert_to_snapshot") =>
          \A address \in Addresses :
              /\ ObservedAccount(state', address)
                     = ObservedAccount(snapshot_state, address)
              /\ GetCode(state', address)
                     = GetCode(snapshot_state, address)]_vars

\* a counted call of the named State method
StateStep(op) == nops' # nops /\ last'.op = op

\* the balance get_balance returns
BalanceOf(s, address) == GetBalance(s, address).val

\* C26: transfer(from, to, amount) with balance(from) >= amount succeeds,
\* lowers balance(from) by amount and raises balance(to) by amount (no change
\* when from = to); with balance(from) < amount it fails with
\* InsufficientBalance(amount, balance(from)) and no balance changes.
C26_TransferMovesAmount ==
    [][StateStep("transfer") =>
          LET from == last'.arg
              to == last'.data[1]
              amount == last'.data[2]
          IN  IF ~NatLess(BalanceOf(state, from), amount)
              THEN /\ last'.res.kind = "Ok"
                   /\ from = to =>
                          \A a \in Addresses :
                              BalanceOf(state', a) = BalanceOf(state, a)
                   /\ from # to =>
                          /\ BalanceOf(state', from)
                                 = NatSub(BalanceOf(state, from), amount)
                          /\ BalanceOf(state', to)
                                 = NatAdd(BalanceOf(state, to), amount)
              ELSE /\ last'.res.kind = "InsufficientBalance"
                   /\ last'.res.arg = <<amount, BalanceOf(state, from)>>
                   /\ \A a \in Addresses :
                          BalanceOf(state', a) = BalanceOf(state, a)]_vars

\* C27: the first get_balance or get_nonce for an address without an account
\* returns 0 and creates a zero-valued externally owned account for it, so
\* account_exists(address) holds afterwards.
C27_QueryCreatesAccount ==
    [][((StateStep("get_balance") \/ StateStep("get_nonce"))
            /\ ~AccountExists(state, last'.arg)) =>
          /\ last'.val \in {Zero, <<0>>}
          /\ AccountExists(state', last'.arg)]_vars

\* C28: after set_code(address, code) with non-empty code, get_code(address)
\* returns that code and the account is a contract; for empty code, and for
\* an address whose code was never set, get_code returns none and the
\* account is not a contract.
C28_SetCodeThenGetCode ==
    [][StateStep("set_code") =>
          LET address == last'.arg
              bytes == last'.data
          IN  IF bytes # <<>>
              THEN /\ GetCode(state', address) = [some |-> TRUE, code |-> bytes]
                   /\ AccountExists(state', address)
                   /\ IsContract(state'.accounts[address])
              ELSE /\ ~GetCode(state', address).some
                   /\ AccountExists(state', address)
                   /\ ~IsContract(state'.accounts[address])]_vars

\* C36: a sub_balance or transfer that fails with InsufficientBalance leaves
\* the whole world state unchanged, the set of existing accounts included:
\* account_exists gives for every address the answer it gave before the call.
C36_FailedDebitLeavesState ==
    [][((StateStep("sub_balance") \/ StateStep("transfer"))
            /\ last'.res.kind = "InsufficientBalance") =>
          /\ state' = state
          /\ \A a \in Addresses :
                 AccountExists(state', a) = AccountExists(state, a)]_vars

\* C37: set_code(a, code) affects only address a: for every other address b,
\* get_code(b) returns after the call exactly what it returned before, for
\* any two codes (two different codes with the same first 32 bytes included).
C37_SetCodeAffectsOneAddress ==
    [][StateStep("set_code") =>
          \A b \in Addresses \ {last'.arg} :
              GetCode(state', b) = GetCode(state, b)]_vars

\* the sum of the balances of the given addresses, as an unbounded natural
RECURSIVE SumBalances(_, _)
SumBalances(s, addresses) ==
    IF addresses = {} THEN Zero
    ELSE LET a == CHOOSE x \in addresses : TRUE
         IN  NatAdd(BalanceOf(s, a), SumBalances(s, addresses \ {a}))

\* C38: a successful transfer leaves the sum of all account balances, taken
\* as unbounded integers, unchanged, and add_balance never makes a balance
\* smaller than it was: no add_balance or transfer wraps a balance around
\* 2^256.
C38_BalancesNeverWrap ==
    [][/\ (StateStep("transfer") /\ last'.res.kind = "Ok") =>
              SumBalances(state', Addresses) = SumBalances(state, Addresses)
       /\ StateStep("add_balance") =>
              ~NatLess(BalanceOf(state', last'.arg),
                       BalanceOf(state, last'.arg))]_vars

-----------------------------------------------------------------------------
(* Stack::dup and Stack::swap: the numbering of depths *)

\* a counted call of the named Stack method on a stack that is not empty
StackStep(op) == nops' # nops /\ last'.op = op /\ stack # <<>>

-----------------------------------------------------------------------------
(* The static-call guard *)

\* C29: in a frame whose context has is_static = true, SSTORE fails with
\* StaticCallViolation before any mutation: the storage is unchanged.
C29_StaticSstoreViolation ==
    [][(/\ nops' # nops
        /\ last'.op = "execute_storage_opcode"
        /\ last'.arg = OP_SSTORE
        /\ is_static) =>
          /\ last'.res.kind = "StaticCallViolation"
          /\ storage' = storage]_vars

-----------------------------------------------------------------------------
(* The DUPn and SWAPn handlers *)

\* the step is a call of the handler of DUPn or SWAPn
DupStep == HandlerStep /\ is_dup(last'.arg)
SwapStep == HandlerStep /\ is_swap(last'.arg)

\* C31: for n in 1..16 the DUPn handler on a stack of at least n items
\* (exactly n included) and fewer than 1024 succeeds, pushes a copy of the
\* n-th item from the top, leaves the existing items in place and advances
\* pc by 1.
C31_DupCopiesNthAndAdvances ==
    [][LET n == access_depth_bytes(last'.arg)
           d == Len(stack)
       IN  (DupStep /\ d >= n /\ d < MAX_STACK_DEPTH) =>
               /\ last'.res = Ok
               /\ stack' = Append(stack, stack[d - (n - 1)])
               /\ pc' = pc + 1]_vars

\* C33: the DUPn handler on a stack of fewer than n items and the SWAPn
\* handler on a stack of at most n items fail with StackUnderflow (not with
\* InvalidJump or any other kind) and leave the stack and pc unchanged.
C33_DupSwapUnderflow ==
    [][LET n == access_depth_bytes(last'.arg)
           d == Len(stack)
       IN  ((DupStep /\ d < n) \/ (SwapStep /\ d <= n)) =>
               /\ last'.res = StackUnderflow
               /\ stack' = stack
               /\ pc' = pc]_vars

-----------------------------------------------------------------------------
(* The program counter and the PUSH immediates *)

\* the offsets of the opcode bytes of code c from offset p on: each opcode is
\* followed by its immediate bytes
RECURSIVE OpcodeOffsetsFrom(_, _)
OpcodeOffsetsFrom(c, p) ==
    IF p >= Len(c) THEN {}
    ELSE {p} \cup OpcodeOffsetsFrom(c, p + 1 + immediate_bytes(c[p + 1]))

OpcodeOffsets(c) == OpcodeOffsetsFrom(c, 0)

\* C32: at every instruction boundary of EVM::execute, entered on a new
\* frame, either execution has terminated (a flag is set or pc >= |code|) or
\* pc < |code| and pc is the offset of an opcode byte, never of a byte inside
\* a PUSH immediate; and a successful PUSHn leaves pc <= |code|.
C32_PcAtOpcodeOffset ==
    /\ [](phase = "running" /\ Fresh =>
              \/ stopped \/ reverted \/ pc >= Len(code)
              \/ pc < Len(code) /\ pc \in OpcodeOffsets(code))
    /\ [][HandlerStep /\ is_push(last'.arg) /\ last'.res = Ok =>
              pc' <= Len(code)]_vars

-----------------------------------------------------------------------------
(* Pricing *)

\* C34: exp_cost(b) = 10 + 50 * ceil(bit_length(b) / 8) for every exponent b,
\* with bit_length(0) = 0: ceil(bit_length(b) / 8) is the number of bytes of
\* b without its leading zero bytes.  An exponent of 0 costs 10, every
\* exponent in 1..255 costs 60 and every exponent in 256..65535 costs 110.
C34_ExpCostPerByte ==
    [][CallStep("exp_cost") =>
           LET b == last'.data
               cost == last'.val[1]
           IN  /\ cost = 10 + 50 * Len(Norm(b))
               /\ (b = W(0) => cost = 10)
               /\ (b \in {W(n) : n \in 1..255} => cost = 60)
               /\ (b \in {W(n) : n \in 256..MaxExponent} \cup {W(65535)} =>
                       cost = 110)]_vars

\* C35: log_cost(k, len) = 375 * (k + 1) + 8 * len for k in 0..4 topics and
\* len data bytes, and log_cost(k, len) = 0 for k > 4.
C35_LogCostEightPerByte ==
    [][CallStep("log_cost") =>
           LET k == last'.arg
               len == last'.data[1]
               cost == last'.val[1]
           IN  IF k <= 4 THEN cost = 375 * (k + 1) + 8 * len
                         ELSE cost = 0]_vars

-----------------------------------------------------------------------------
(* The three prices of a memory expansion *)

\* C39: the three memory-expansion pricing functions agree: for every
\* current memory size s (a multiple of 32 or not), every offset and every
\* len > 0, Memory::expansion_cost(off, len) on a memory of size s equals
\* gas::memory_expansion_cost(s, off + len) and
\* evm::gas::memory_expansion_cost(s, off + len); the two functions of two
\* sizes return the same for the same sizes.
C39_ExpansionPricesAgree ==
    [][/\ (MemoryStep({"expansion_cost"}) /\ last'.data[1] > 0) =>
              LET s == Len(memory)
                  new_size == last'.arg + last'.data[1]
              IN  /\ last'.val = <<memory_expansion_cost(s, new_size)>>
                  /\ last'.val = <<evm_gas_memory_expansion_cost(s, new_size)>>
       /\ MemoryStep({"memory_expansion_cost"}) =>
              last'.val = <<evm_gas_memory_expansion_cost(last'.arg,
                                                          last'.data[1])>>
       /\ MemoryStep({"evm::gas::memory_expansion_cost"}) =>
              last'.val = <<memory_expansion_cost(last'.arg,
                                                  last'.data[1])>>]_vars

\* expansion_cost(33, 32) on a memory of 33 bytes, which is two words, has
\* returned the price of the third word
C39_Witness ==
    /\ last.op = "expansion_cost"
    /\ last.arg = 33
    /\ last.data = <<32>>
    /\ Len(memory) = 33
    /\ last.val = <<3>>
    /\ memory_expansion_cost(33, 65) = 3
    /\ evm_gas_memory_expansion_cost(33, 65) = 3

\* the Memory methods that touch a range of the memory, and the length of
\* the range a call touches from its offset on
TouchMethods == {"load", "store", "store_byte", "load_range", "store_range"}

TouchSize(call) ==
    CASE call.op \in {"load", "store"} -> WORD_BYTES
      [] call.op = "store_byte" -> 1
      [] call.op = "load_range" -> call.data[1]
      [] call.op = "store_range" -> Len(call.data)

\* the step is a touch of the range whose expansion_cost was evaluated by
\* the call before it
ChargedTouch ==
    /\ last.op = "expansion_cost"
    /\ MemoryStep(TouchMethods)
    /\ last'.arg = last.arg
    /\ TouchSize(last') = last.data[1]

\* C40: memory expansion pricing is path-independent: with expansion_cost
\* evaluated immediately before each memory touch, the costs of any sequence
\* of touches from the empty memory sum to C(ceil(final_size / 32)), whatever
\* the order and the sizes of the touches, and each cost is >= 0.  The sums
\* of all sequences are these exactly if each cost is the difference of C
\* between the words of the memory after the touch and before it.
C40_ExpansionCostPathIndependent ==
    [][ChargedTouch =>
           LET cost == last.val[1]
               words_before == (Len(memory) + 31) \div 32
               words_after == (Len(memory') + 31) \div 32
           IN  /\ cost >= 0
               /\ cost = CostC(words_after) - CostC(words_before)]_vars

=============================================================================
